---- MODULE Spec2Model ----
(***************************************************************************)
(* Monkey King Evolution (v1, v2, v3) as implemented twice in the          *)
(* repository: NiaPy/algorithms/basic/mke.py (runTask based) and           *)
(* niapy/algorithms/basic/mke.py (init_population / run_iteration based).  *)
(*                                                                         *)
(* Positions are vectors of integers (a fixed-point grid); a coefficient   *)
(* (population_rate, c, fc, a random draw) is a number of halves, and a    *)
(* product is truncated back to the grid.  The objective is the sphere     *)
(* function of the spec's scenario.                                        *)
(***************************************************************************)
EXTENDS Integers, Sequences, FiniteSets, TLC

\* ------------------------------------------------------------------ task
dimension == 2
Lower == -1
Upper == 2
MaxEvals == 6
Inf == 99

Dims == 1..dimension
bRange == Upper - Lower

\* Outcomes of one uniform draw, in halves.
RandNums == {0, 1, 2}

Budgets == {1, MaxEvals}
PopSizes == {1, 2}
RateNums == {0, 1, 2, 3}
CNums == {0, 1, 2}
FCNums == {1, 2}

\* ------------------------------------------------------------ arithmetic
\* Python's int(): truncation toward zero, of n/d.
Trunc(n, d) == IF n >= 0 THEN n \div d ELSE -((-n) \div d)

\* math.ceil of n/d.
Ceil(n, d) == -((-n) \div d)

\* (a/2) * v and (a/2) * (b/2) * v on the grid.
Scale(a, v) == Trunc(a * v, 2)
Scale2(a, b, v) == Trunc(a * b * v, 4)

Min(a, b) == IF a <= b THEN a ELSE b
Max(a, b) == IF a >= b THEN a ELSE b

RECURSIVE SumSq(_, _)
SumSq(x, d) == IF d = 0 THEN 0 ELSE x[d] * x[d] + SumSq(x, d - 1)

\* The objective function (sphere).
Sphere(x) == SumSq(x, dimension)

\* numpy.argmin / numpy.argmax: the first index of the minimum / maximum.
argmin(fs) ==
  CHOOSE j \in DOMAIN fs :
    /\ \A q \in DOMAIN fs : fs[j] <= fs[q]
    /\ \A q \in DOMAIN fs : q < j => fs[q] > fs[j]

argmax(fs) ==
  CHOOSE j \in DOMAIN fs :
    /\ \A q \in DOMAIN fs : fs[j] >= fs[q]
    /\ \A q \in DOMAIN fs : q < j => fs[q] < fs[j]

\* Task.repair / MonkeyKingEvolutionV1.repair: clip every component.
repair(x) == [d \in Dims |-> Max(Lower, Min(Upper, x[d]))]

InBounds(x) == \A d \in Dims : Lower <= x[d] /\ x[d] <= Upper

\* A sampling that may repeat an index.
choice_repeating(n, size) == [1..size -> 1..n]

\* rng.choice(n, size, replace=False): the possible results.
choice_no_replace(n, size) ==
  {s \in [1..size -> 1..n] : \A a, b \in 1..size : a # b => s[a] # s[b]}

\* rng.choice(n, size): the possible results (with replacement).
choice(n, size) == [1..size -> 1..n]

\* Whether rng.choice(n, size, replace=False) raises ValueError.
choice_raises(n, size) == size < 0 \/ size > n

\* ----------------------------------------------------------------- state
VARIABLES
  pc,                  \* position of the run
  alg,                 \* the algorithm's parameters
  max_evals,           \* task budget
  evals,               \* task evaluation counter
  pop,                 \* the population
  population_fitness,  \* the fitness array returned by init / run_iteration
  p_b,                 \* NiaPy v1/v2: index of the individual held as best
  best_x,              \* tracked global-best position
  best_fitness,        \* tracked global-best fitness
  i,                   \* index of the individual move_population is at
  x_gb,                \* v3: candidate batch of step 1
  x_gb_f,              \* v3: its fitness values
  x_gb_raw,            \* v3: the batch before repair
  ra,                  \* v3: first row selection
  rb,                  \* v3: second row selection
  params,              \* v3: the pair (k, c) carried across iterations
  unseeded,            \* a draw was taken from numpy's global random state
  evals0,              \* evals at the top of the current iteration
  best0,               \* tracked global-best fitness at the top of the iteration
  A,                   \* v1/v2: the batch of the elite move just made
  A_f,                 \* v1/v2: its fitness values
  shape,               \* v3: (population_size, task.dimension), the mask's shape
  m,                   \* v3: the mask, when computed on its own
  m_neg,               \* v3: its complement, vectorize(neg)(m)
  injected             \* v3: the row the iteration's injection overwrote, or 0

vars == <<pc, alg, max_evals, evals, pop, population_fitness, p_b, best_x,
          best_fitness, i, x_gb, x_gb_f, x_gb_raw, ra, rb, params, unseeded, evals0,
          best0, A, A_f, shape, m, m_neg, injected>>

Configs ==
  [variant : {"v1", "v2", "v3"}, lib : {"NiaPy", "niapy"},
   population_size : PopSizes, population_rate : RateNums,
   c : CNums, fc : FCNums, fluctuation_coeff : {2}]

NP == alg.population_size

\* NiaPy's v1/v2 hold the best as a reference to a member of the population.
Aliased == alg.lib = "NiaPy" /\ alg.variant \in {"v1", "v2"}

\* The tracked global best, as the run would return it.
GlobalBestX == IF Aliased THEN pop[p_b].x ELSE best_x
GlobalBestF == IF Aliased THEN pop[p_b].f ELSE best_fitness

Init ==
  /\ pc = "new"
  /\ alg \in Configs
  /\ max_evals \in Budgets
  /\ evals = 0
  /\ pop = <<>>
  /\ population_fitness = <<>>
  /\ p_b = 0
  /\ best_x = <<>>
  /\ best_fitness = Inf
  /\ i = 0
  /\ x_gb = <<>>
  /\ x_gb_f = <<>>
  /\ x_gb_raw = <<>>
  /\ ra = <<>>
  /\ rb = <<>>
  /\ params = [k |-> 0, c |-> 0]
  /\ unseeded = FALSE
  /\ evals0 = 0
  /\ best0 = Inf
  /\ A = <<>>
  /\ A_f = <<>>
  /\ shape = [np |-> alg.population_size, d |-> dimension]
  /\ m = <<>>
  /\ m_neg = <<>>
  /\ injected = 0

\* ----------------------------------------------------------- construction
\* MonkeyKingEvolutionV1.__init__ / __setParams: the parameters are stored
\* as given.
Construct ==
  /\ pc = "new"
  /\ pc' = "init"
  /\ UNCHANGED <<alg, max_evals, evals, pop, population_fitness, p_b, best_x,
                 best_fitness, i, x_gb, x_gb_f, x_gb_raw, ra, rb, params, unseeded,
                 evals0, best0, A, A_f>>
  /\ UNCHANGED <<shape, m, m_neg, injected>>

\* ---------------------------------------------------------- individuals
\* The positions one initial draw can give: lower + range * U(0,1).
InitPositions == [Dims -> {Lower + Scale(r, bRange) : r \in RandNums}]

\* niapy MkeSolution.__init__: evaluated once, personal best seeded.
MkeSolution(x) ==
  [x |-> x, f |-> Sphere(x), x_pb |-> x, f_pb |-> Sphere(x), monkey_king |-> FALSE]

\* NiaPy MkeSolution.__init__ / generateSolution: f_pb stays inf.
generateSolution(x) ==
  [x |-> x, f |-> Sphere(x), x_pb |-> x, f_pb |-> Inf, monkey_king |-> FALSE]

\* An update that also overwrites on a tie.
update_personal_best_on_tie(p) ==
  IF p.f <= p.f_pb THEN [p EXCEPT !.x_pb = p.x, !.f_pb = p.f] ELSE p

\* MkeSolution.update_personal_best / uPersonalBest.
update_personal_best(p) ==
  IF p.f < p.f_pb THEN [p EXCEPT !.x_pb = p.x, !.f_pb = p.f] ELSE p

\* A tracked best that is taken from the first population and then assumed.
get_best_assumed(xs, fs, bx, bf) ==
  LET ib == argmin(fs)
  IN IF bf = Inf THEN <<xs[ib], fs[ib]>> ELSE <<bx, bf>>

\* Algorithm.get_best: the population minimum replaces the tracked best on
\* strict improvement.
get_best(xs, fs, bx, bf) ==
  LET ib == argmin(fs)
  IN IF fs[ib] < bf THEN <<xs[ib], fs[ib]>> ELSE <<bx, bf>>

\* A flagging that ignores the selection and takes the first individuals.
set_monkey_kings_first(P, sel) ==
  [j \in DOMAIN P |->
     IF j <= Cardinality(DOMAIN sel) THEN [P[j] EXCEPT !.monkey_king = TRUE]
     ELSE P[j]]

\* The flags after `for i in rng.choice(...): pop[i].monkey_king = True`.
set_monkey_kings(P, sel) ==
  [j \in DOMAIN P |->
     IF \E a \in DOMAIN sel : sel[a] = j THEN [P[j] EXCEPT !.monkey_king = TRUE]
     ELSE P[j]]

\* int(population_rate * len(pop)).
n_monkey_kings == Trunc(alg.population_rate * NP, 2)

Fitnesses(P) == [j \in DOMAIN P |-> P[j].f]
Positions(P) == [j \in DOMAIN P |-> P[j].x]

\* niapy MonkeyKingEvolutionV1.init_population, and the argmin of run().
init_population ==
  /\ pc = "init"
  /\ alg.lib = "niapy"
  /\ alg.variant \in {"v1", "v2"}
  /\ \E xs \in [1..NP -> InitPositions] :
       LET P == [j \in 1..NP |-> MkeSolution(xs[j])]
           b == get_best(Positions(P), Fitnesses(P), <<>>, Inf)
       IN /\ evals' = evals + NP
          /\ population_fitness' = Fitnesses(P)
          /\ IF choice_raises(NP, n_monkey_kings)
             THEN /\ pc' = "error"
                  /\ pop' = P
                  /\ UNCHANGED <<best_x, best_fitness, best0>>
             ELSE /\ \E sel \in choice_no_replace(NP, n_monkey_kings) :
                       pop' = set_monkey_kings(P, sel)
                  /\ pc' = "loop"
                  /\ best_x' = b[1]
                  /\ best_fitness' = b[2]
                  /\ best0' = b[2]
  /\ UNCHANGED <<alg, max_evals, p_b, i, x_gb, x_gb_f, x_gb_raw, ra, rb, params,
                 unseeded, evals0, A, A_f>>
  /\ UNCHANGED <<shape, m, m_neg, injected>>

\* NiaPy MonkeyKingEvolutionV1.runTask up to the loop.  MkeSolution(task=task)
\* draws its position from numpy's global random state.
runTask_init ==
  /\ pc = "init"
  /\ alg.lib = "NiaPy"
  /\ alg.variant \in {"v1", "v2"}
  /\ \E xs \in [1..NP -> InitPositions] :
       LET P == [j \in 1..NP |-> generateSolution(xs[j])]
       IN /\ evals' = evals + NP
          /\ unseeded' = TRUE
          /\ p_b' = argmin(Fitnesses(P))
          /\ best0' = P[argmin(Fitnesses(P))].f
          /\ IF choice_raises(NP, n_monkey_kings)
             THEN /\ pc' = "error"
                  /\ pop' = P
             ELSE /\ \E sel \in choice_no_replace(NP, n_monkey_kings) :
                       pop' = set_monkey_kings(P, sel)
                  /\ pc' = "loop"
  /\ UNCHANGED <<alg, max_evals, population_fitness, best_x, best_fitness, i,
                 x_gb, x_gb_f, x_gb_raw, ra, rb, params, evals0, A, A_f>>
  /\ UNCHANGED <<shape, m, m_neg, injected>>

\* ------------------------------------------------------------- run loop
\* task.stopping_condition() / task.stopCond().
stopping_condition == evals >= max_evals

\* The loop's test is true: the run returns the tracked best.
Return ==
  /\ pc = "loop"
  /\ stopping_condition
  /\ pc' = "done"
  /\ UNCHANGED <<alg, max_evals, evals, pop, population_fitness, p_b, best_x,
                 best_fitness, i, x_gb, x_gb_f, x_gb_raw, ra, rb, params, unseeded,
                 evals0, best0, A, A_f>>
  /\ UNCHANGED <<shape, m, m_neg, injected>>

\* The loop's test is false: one more iteration starts.
Iterate ==
  /\ pc = "loop"
  /\ ~stopping_condition
  /\ pc' = IF alg.variant = "v3" THEN "step1" ELSE "move"
  /\ i' = 1
  /\ evals0' = evals
  /\ best0' = GlobalBestF
  /\ UNCHANGED <<alg, max_evals, evals, pop, population_fitness, p_b, best_x,
                 best_fitness, x_gb, x_gb_f, x_gb_raw, ra, rb, params, unseeded,
                 A, A_f>>
  /\ injected' = 0
  /\ UNCHANGED <<shape, m, m_neg>>

\* ------------------------------------------------------------ v1 / v2 moves
\* move_p / moveP: x_pb + fluctuation_coeff * U(0,1)^D * (x_b - x).
move_p(x, x_pb, x_b, r) ==
  [d \in Dims |-> x_pb[d] + Scale2(alg.fluctuation_coeff, r[d], x_b[d] - x[d])]

\* v1 move_mk / moveMK: one row of x + fc * U(0,1)^(n,D) * x.
move_mk(x, r) == [d \in Dims |-> x[d] + Scale2(alg.fc, r[d], x[d])]

\* v2 move_mk / moveMK: x - fc * dx.
move_mk_v2(x, dx) == [d \in Dims |-> x[d] - Scale(alg.fc, dx[d])]

\* After the body of `for p in pop` for individual i.
AfterIndividual(P) ==
  /\ pop' = P
  /\ IF i = NP THEN pc' = "resample" /\ i' = i ELSE pc' = "move" /\ i' = i + 1

\* move_particle / movePartice, then update_personal_best: a non-elite
\* individual moves toward the global best, is repaired and evaluated.
move_particle ==
  /\ pc = "move"
  /\ ~pop[i].monkey_king
  /\ \E r \in [Dims -> RandNums] :
       LET p == pop[i]
           x == repair(move_p(p.x, p.x_pb, GlobalBestX, r))
           q == [p EXCEPT !.x = x, !.f = Sphere(x)]
       IN AfterIndividual([pop EXCEPT ![i] = update_personal_best(q)])
  /\ evals' = evals + 1
  /\ A' = <<>>
  /\ A_f' = <<>>
  /\ UNCHANGED <<alg, max_evals, population_fitness, p_b, best_x, best_fitness,
                 x_gb, x_gb_f, x_gb_raw, ra, rb, params, unseeded, evals0, best0>>
  /\ UNCHANGED <<shape, m, m_neg, injected>>

\* A batch that also holds one more row than int(c * task.dimension).
n_offspring_and_one == Trunc(alg.c * dimension, 2) + 1

\* int(c * task.dimension): the number of offspring of a v1 elite.
n_offspring == Trunc(alg.c * dimension, 2)

\* An elite that keeps its prior state unless the best offspring is better.
truncation_keeping_prior(p, a, a_f) ==
  LET ib == argmin(a_f)
  IN IF a_f[ib] < p.f THEN [p EXCEPT !.x = a[ib], !.f = a_f[ib]] ELSE p

\* ib = argmin(a_f); p.x, p.f = a[ib], a_f[ib].
truncation(p, a, a_f) ==
  LET ib == argmin(a_f)
  IN [p EXCEPT !.x = a[ib], !.f = a_f[ib]]

\* v1 move_monkey_king_particle / moveMokeyKingPartice, then
\* update_personal_best.  numpy.apply_along_axis raises ValueError on a batch
\* of no rows.
move_monkey_king_particle ==
  /\ pc = "move"
  /\ alg.variant = "v1"
  /\ pop[i].monkey_king
  /\ LET p == [pop[i] EXCEPT !.monkey_king = FALSE]
     IN IF n_offspring = 0
        THEN /\ pc' = "error"
             /\ pop' = [pop EXCEPT ![i] = p]
             /\ A' = <<>>
             /\ A_f' = <<>>
             /\ UNCHANGED <<i, evals>>
        ELSE /\ \E r \in [1..n_offspring -> [Dims -> RandNums]] :
                  LET a == [t \in 1..n_offspring |-> repair(move_mk(p.x, r[t]))]
                      a_f == [t \in 1..n_offspring |-> Sphere(a[t])]
                      q == truncation(p, a, a_f)
                  IN /\ AfterIndividual([pop EXCEPT ![i] = update_personal_best(q)])
                     /\ A' = a
                     /\ A_f' = a_f
             /\ evals' = evals + n_offspring
  /\ UNCHANGED <<alg, max_evals, population_fitness, p_b, best_x, best_fitness,
                 x_gb, x_gb_f, x_gb_raw, ra, rb, params, unseeded, evals0, best0>>
  /\ UNCHANGED <<shape, m, m_neg, injected>>

\* int(c * population_size): the number of trials of a v2 elite.
n_trials == Trunc(alg.c * NP, 2)

\* The loop of v2's move_monkey_king_particle from trial t on: a candidate
\* replaces the kept one when strictly better.
\* A loop in which a candidate also replaces the kept one on a tie.
RECURSIVE greedy_trials_on_tie(_, _, _, _, _)
greedy_trials_on_tie(t, a, a_f, p_b_, p_f) ==
  IF t > Len(a) THEN <<p_b_, p_f>>
  ELSE IF a_f[t] <= p_f THEN greedy_trials_on_tie(t + 1, a, a_f, a[t], a_f[t])
       ELSE greedy_trials_on_tie(t + 1, a, a_f, p_b_, p_f)

RECURSIVE greedy_trials(_, _, _, _, _)
greedy_trials(t, a, a_f, p_b_, p_f) ==
  IF t > Len(a) THEN <<p_b_, p_f>>
  ELSE IF a_f[t] < p_f THEN greedy_trials(t + 1, a, a_f, a[t], a_f[t])
       ELSE greedy_trials(t + 1, a, a_f, p_b_, p_f)

\* v2 move_monkey_king_particle / moveMokeyKingPartice, then
\* update_personal_best.
move_monkey_king_particle_v2 ==
  /\ pc = "move"
  /\ alg.variant = "v2"
  /\ pop[i].monkey_king
  /\ LET p == [pop[i] EXCEPT !.monkey_king = FALSE]
     IN IF n_trials > 0 /\ choice_raises(NP, 2)
        THEN /\ pc' = "error"
             /\ pop' = [pop EXCEPT ![i] = p]
             /\ A' = <<>>
             /\ A_f' = <<>>
             /\ UNCHANGED <<i, evals>>
        ELSE /\ \E r \in [1..n_trials -> choice_no_replace(NP, 2)] :
                  LET a == [t \in 1..n_trials |->
                              repair(move_mk_v2(p.x,
                                [d \in Dims |-> pop[r[t][1]].x[d] - pop[r[t][2]].x[d]]))]
                      a_f == [t \in 1..n_trials |-> Sphere(a[t])]
                      g == greedy_trials(1, a, a_f, p.x, p.f)
                      q == [p EXCEPT !.x = g[1], !.f = g[2]]
                  IN /\ AfterIndividual([pop EXCEPT ![i] = update_personal_best(q)])
                     /\ A' = a
                     /\ A_f' = a_f
             /\ evals' = evals + n_trials
  /\ UNCHANGED <<alg, max_evals, population_fitness, p_b, best_x, best_fitness,
                 x_gb, x_gb_f, x_gb_raw, ra, rb, params, unseeded, evals0, best0>>
  /\ UNCHANGED <<shape, m, m_neg, injected>>

\* niapy MonkeyKingEvolutionV1.run_iteration after move_population: the
\* elite flags are sampled again, the fitness array is rebuilt, get_best.
run_iteration ==
  /\ pc = "resample"
  /\ alg.lib = "niapy"
  /\ \E sel \in choice_no_replace(NP, n_monkey_kings) :
       pop' = set_monkey_kings(pop, sel)
  /\ population_fitness' = Fitnesses(pop)
  /\ LET b == get_best(Positions(pop), Fitnesses(pop), best_x, best_fitness)
     IN best_x' = b[1] /\ best_fitness' = b[2]
  /\ pc' = "loop"
  /\ A' = <<>>
  /\ A_f' = <<>>
  /\ UNCHANGED <<alg, max_evals, evals, p_b, i, x_gb, x_gb_f, x_gb_raw, ra, rb, params,
                 unseeded, evals0, best0>>
  /\ UNCHANGED <<shape, m, m_neg, injected>>

\* NiaPy MonkeyKingEvolutionV1.runTask after movePopulation.
runTask ==
  /\ pc = "resample"
  /\ alg.lib = "NiaPy"
  /\ \E sel \in choice_no_replace(NP, n_monkey_kings) :
       pop' = set_monkey_kings(pop, sel)
  /\ LET ib == argmin(Fitnesses(pop))
     IN p_b' = IF pop[ib].f < pop[p_b].f THEN ib ELSE p_b
  /\ pc' = "loop"
  /\ A' = <<>>
  /\ A_f' = <<>>
  /\ UNCHANGED <<alg, max_evals, evals, population_fitness, best_x, best_fitness,
                 i, x_gb, x_gb_f, x_gb_raw, ra, rb, params, unseeded, evals0, best0>>
  /\ UNCHANGED <<shape, m, m_neg, injected>>

\* ----------------------------------------------------------------- v3
\* NiaPy MonkeyKingEvolutionV3.eval: the batch minimum replaces the tracked
\* best when not worse.
eval(X, X_f, x, x_f) ==
  LET igb == argmin(X_f)
  IN IF X_f[igb] <= x_f THEN <<X[igb], X_f[igb]>> ELSE <<x, x_f>>

\* The best after a freshly evaluated batch, per implementation.
update_best(X, X_f, x, x_f) ==
  IF alg.lib = "niapy" THEN get_best(X, X_f, x, x_f) ELSE eval(X, X_f, x, x_f)

\* MonkeyKingEvolutionV3.init_population (and the argmin of run()) / the
\* first lines of NiaPy's MonkeyKingEvolutionV3.runTask.
init_population_v3 ==
  /\ pc = "init"
  /\ alg.variant = "v3"
  /\ \E xs \in [1..NP -> InitPositions] :
       LET X_f == [j \in 1..NP |-> Sphere(xs[j])]
           b == update_best(xs, X_f, <<>>, Inf)
       IN /\ pop' = [j \in 1..NP |->
                      [x |-> xs[j], f |-> Inf, x_pb |-> xs[j], f_pb |-> Inf,
                       monkey_king |-> FALSE]]
          /\ population_fitness' = X_f
          /\ best_x' = b[1]
          /\ best_fitness' = b[2]
          /\ best0' = b[2]
  /\ evals' = evals + NP
  /\ params' = [k |-> Ceil(NP, dimension), c |-> Ceil(alg.c * dimension, 2)]
  /\ pc' = "loop"
  /\ UNCHANGED <<alg, max_evals, p_b, i, x_gb, x_gb_f, x_gb_raw, ra, rb,
                 unseeded, evals0, A, A_f>>
  /\ UNCHANGED <<shape, m, m_neg, injected>>

\* Row r of best_x + fc * population[a] - population[b].
candidate(a, b) ==
  [d \in Dims |-> best_x[d] + Scale(alg.fc, pop[a].x[d]) - pop[b].x[d]]

\* v3 step 1: the candidate batch is formed, (in niapy) repaired, evaluated,
\* and the tracked best updated from it.  numpy.apply_along_axis raises
\* ValueError on a batch of no rows.
run_iteration_v3_candidates ==
  /\ pc = "step1"
  /\ IF params.c = 0
     THEN /\ pc' = "error"
          /\ UNCHANGED <<evals, best_x, best_fitness, x_gb, x_gb_f, x_gb_raw, ra, rb>>
     ELSE /\ \E a \in choice(NP, params.c), b \in choice(NP, params.c) :
               LET raw == [r \in 1..params.c |-> candidate(a[r], b[r])]
                   X == IF alg.lib = "niapy"
                        THEN [r \in 1..params.c |-> repair(raw[r])] ELSE raw
                   X_f == [r \in 1..params.c |-> Sphere(X[r])]
                   best == update_best(X, X_f, best_x, best_fitness)
               IN /\ ra' = a
                  /\ rb' = b
                  /\ x_gb_raw' = raw
                  /\ x_gb' = X
                  /\ x_gb_f' = X_f
                  /\ best_x' = best[1]
                  /\ best_fitness' = best[2]
          /\ evals' = evals + params.c
          /\ pc' = "step2"
  /\ UNCHANGED <<alg, max_evals, pop, population_fitness, p_b, i, params,
                 unseeded, evals0, best0, A, A_f>>
  /\ UNCHANGED <<shape, m, m_neg, injected>>

\* MonkeyKingEvolutionV3.neg.
neg(x) == IF x = 1 THEN 0 ELSE 1

\* A mask in which only the whole blocks of task.dimension rows are
\* triangular.
tril_mask_whole_blocks(j, d) ==
  IF ((j - 1) \div shape.d + 1) * shape.d <= shape.np /\ d > ((j - 1) % shape.d) + 1
  THEN 0 ELSE 1

\* Entry (j, d) of the mask after the tril of each of the k blocks.
tril_mask(j, d) ==
  IF (j - 1) \div shape.d < params.k /\ d > ((j - 1) % shape.d) + 1 THEN 0 ELSE 1

\* rng.shuffle(m[j]) for every row: the possible masks.
shuffled_masks ==
  LET cols == 1..shape.d
      perms == {q \in [cols -> cols] : \A a, b \in cols : a # b => q[a] # q[b]}
  IN {[j \in 1..shape.np |-> [d \in cols |-> tril_mask(j, q[j][d])]] :
        q \in [1..shape.np -> perms]}

\* Row j of m * population + neg(m) * best_x.
recombine(M, j) ==
  [d \in 1..shape.d |-> M[j][d] * pop[j].x[d] + neg(M[j][d]) * best_x[d]]

\* v3 steps 2 to 4: mask, recombination, (in niapy) repair, evaluation and
\* the update of the tracked best.  NiaPy's iteration ends here.
run_iteration_v3_recombine ==
  /\ pc = "step2"
  /\ \E M \in shuffled_masks :
       LET X == [j \in 1..NP |->
                   IF alg.lib = "niapy" THEN repair(recombine(M, j)) ELSE recombine(M, j)]
           X_f == [j \in 1..NP |-> Sphere(X[j])]
           best == update_best(X, X_f, best_x, best_fitness)
       IN /\ pop' = [j \in 1..NP |-> [pop[j] EXCEPT !.x = X[j]]]
          /\ population_fitness' = X_f
          /\ best_x' = best[1]
          /\ best_fitness' = best[2]
  /\ evals' = evals + NP
  /\ IF alg.lib = "niapy"
     THEN pc' = "inject" /\ UNCHANGED <<x_gb, x_gb_f, x_gb_raw, ra, rb>>
     ELSE /\ pc' = "loop"
          /\ x_gb' = <<>> /\ x_gb_f' = <<>> /\ x_gb_raw' = <<>>
          /\ ra' = <<>> /\ rb' = <<>>
  /\ UNCHANGED <<alg, max_evals, p_b, i, params, unseeded, evals0, best0, A, A_f>>
  /\ UNCHANGED <<shape, m, m_neg, injected>>

\* v3 step 5 (niapy): the best candidate of step 1 replaces the worst row.
run_iteration_v3_inject ==
  /\ pc = "inject"
  /\ LET iw == argmax(population_fitness)
         ib_gb == argmin(x_gb_f)
     IN IF x_gb_f[ib_gb] <= population_fitness[iw]
        THEN /\ pop' = [pop EXCEPT ![iw].x = x_gb[ib_gb]]
             /\ population_fitness' = [population_fitness EXCEPT ![iw] = x_gb_f[ib_gb]]
             /\ injected' = iw
        ELSE UNCHANGED <<pop, population_fitness, injected>>
  /\ pc' = "loop"
  /\ x_gb' = <<>> /\ x_gb_f' = <<>> /\ x_gb_raw' = <<>>
  /\ ra' = <<>> /\ rb' = <<>>
  /\ UNCHANGED <<alg, max_evals, evals, p_b, best_x, best_fitness, i, params,
                 unseeded, evals0, best0, A, A_f>>
  /\ UNCHANGED <<shape, m, m_neg>>

Next ==
  \/ Construct
  \/ init_population
  \/ runTask_init
  \/ init_population_v3
  \/ Return
  \/ Iterate
  \/ move_particle
  \/ move_monkey_king_particle
  \/ move_monkey_king_particle_v2
  \/ run_iteration
  \/ runTask
  \/ run_iteration_v3_candidates
  \/ run_iteration_v3_recombine
  \/ run_iteration_v3_inject

Spec == Init /\ [][Next]_vars

\* Every enabled step is eventually taken: the run is a single thread that
\* never waits.
LiveSpec == Init /\ [][Next]_vars /\ WF_vars(Next)

\* ------------------------------------------- the v3 mask on its own
\* The mask, its complement and the recombination are functions of the
\* shape, of k and of the rows: they are run here for shapes the runs above
\* do not reach.
MaxMaskRows == 3
MaxMaskCols == 3
MaskValues == {1, 2}

MaskInit ==
  /\ pc = "mask"
  /\ shape \in [np : 1..MaxMaskRows, d : 1..MaxMaskCols]
  /\ alg = [variant |-> "v3", lib |-> "niapy", population_size |-> shape.np,
            population_rate |-> 0, c |-> 1, fc |-> 1, fluctuation_coeff |-> 2]
  /\ params = [k |-> Ceil(shape.np, shape.d), c |-> 1]
  /\ \E v \in MaskValues :
       pop = [j \in 1..shape.np |->
                [x |-> [d \in 1..shape.d |-> v], f |-> Inf,
                 x_pb |-> [d \in 1..shape.d |-> v], f_pb |-> Inf, monkey_king |-> FALSE]]
  /\ best_x = [d \in 1..shape.d |-> 0]
  /\ best_fitness = 0
  /\ max_evals = MaxEvals
  /\ evals = 0
  /\ population_fitness = <<>>
  /\ p_b = 0
  /\ i = 0
  /\ x_gb = <<>>
  /\ x_gb_f = <<>>
  /\ x_gb_raw = <<>>
  /\ ra = <<>>
  /\ rb = <<>>
  /\ unseeded = FALSE
  /\ evals0 = 0
  /\ best0 = Inf
  /\ A = <<>>
  /\ A_f = <<>>
  /\ m = <<>>
  /\ m_neg = <<>>
  /\ injected = 0

\* m = ones; tril of each block; shuffle of each row; vectorize(neg)(m).
make_mask ==
  /\ pc = "mask"
  /\ \E M \in shuffled_masks :
       /\ m' = M
       /\ m_neg' = [j \in 1..shape.np |-> [d \in 1..shape.d |-> neg(M[j][d])]]
  /\ pc' = "masked"
  /\ UNCHANGED <<alg, max_evals, evals, pop, population_fitness, p_b, best_x,
                 best_fitness, i, x_gb, x_gb_f, x_gb_raw, ra, rb, params, unseeded,
                 evals0, best0, A, A_f, shape, injected>>

\* m * population + vectorize(neg)(m) * best_x, before the repair.
recombination ==
  /\ pc = "masked"
  /\ pop' = [j \in 1..shape.np |-> [pop[j] EXCEPT !.x = recombine(m, j)]]
  /\ pc' = "recombined"
  /\ UNCHANGED <<alg, max_evals, evals, population_fitness, p_b, best_x,
                 best_fitness, i, x_gb, x_gb_f, x_gb_raw, ra, rb, params, unseeded,
                 evals0, best0, A, A_f, shape, m, m_neg, injected>>

MaskNext ==
  \/ make_mask
  \/ recombination

MaskSpec == MaskInit /\ [][MaskNext]_vars

\* ---------------------------------------------------------------- claims
Discrete == alg.variant \in {"v1", "v2"}

Elites == {j \in DOMAIN pop : pop[j].monkey_king}

MaxOf(fs) == fs[argmax(fs)]

\* The evaluations one iteration performs under the configuration.
IterationEvals ==
  IF alg.variant = "v3" THEN params.c + NP
  ELSE (NP - n_monkey_kings)
       + n_monkey_kings * (IF alg.variant = "v1" THEN n_offspring ELSE n_trials)

\* C1: at every iteration boundary (and at the return) the tracked
\* global-best fitness is not greater than it was at the top of the
\* iteration just finished.
C1_MonotonicBest == pc \in {"loop", "done"} => GlobalBestF <= best0

\* C2: at every iteration boundary every member's position and the tracked
\* global-best position lie within the bounds, and every candidate of a v3
\* batch that was evaluated lies within the bounds.
C2_BoundaryContainment ==
  /\ pc \in {"loop", "done"} =>
       /\ \A j \in DOMAIN pop : InBounds(pop[j].x)
       /\ InBounds(GlobalBestX)
  /\ pc \in {"step2", "inject"} => \A r \in DOMAIN x_gb : InBounds(x_gb[r])

\* C3: when the run returns the budget is reached, and it is exceeded by
\* less than the number of evaluations one iteration performs.
C3_BudgetExactness ==
  pc = "done" => evals >= max_evals /\ evals - max_evals < IterationEvals

\* C4: every iteration performs at least one evaluation: at an iteration
\* boundary the counter is greater than at the top of the iteration.
C4_IterationEvaluates == pc = "loop" => evals > evals0

\* C4 as termination: every run leaves the loop.
C4_Terminates == <>(pc \in {"done", "error"})

\* C5: the step that moves individual i and calls update_personal_best
\* leaves personal_best_fitness <= fitness, overwrites both personal-best
\* fields exactly when the new fitness is strictly better and otherwise
\* leaves both unchanged; and no step increases a personal_best_fitness.
C5_PersonalBest ==
  [][((pc = "move" /\ pc' # "error") =>
        (/\ pop'[i].f_pb <= pop'[i].f
         /\ (pop'[i].f < pop[i].f_pb) =>
              (pop'[i].f_pb = pop'[i].f /\ pop'[i].x_pb = pop'[i].x)
         /\ (pop'[i].f >= pop[i].f_pb) =>
              (pop'[i].f_pb = pop[i].f_pb /\ pop'[i].x_pb = pop[i].x_pb)))
     /\ ((Discrete /\ pop # <<>>) =>
           (\A j \in DOMAIN pop : pop'[j].f_pb <= pop[j].f_pb))]_vars

\* C5 witness: after a move that did not improve on the personal best, the
\* personal best is kept while another individual's was overwritten.
C5_Witness ==
  /\ pc = "resample"
  /\ evals0 > NP
  /\ \E j \in DOMAIN pop : pop[j].f_pb < pop[j].f /\ pop[j].x_pb # pop[j].x
  /\ \E j \in DOMAIN pop : pop[j].f_pb = pop[j].f /\ pop[j].f_pb < Inf

\* C6: after initialization and after every resample the number of flagged
\* individuals is floor(population_rate * population_size), and when the
\* resample starts no flag of the previous one is still set.
C6_EliteFraction ==
  /\ (Discrete /\ pc \in {"loop", "done"}) =>
       Cardinality(Elites) = (alg.population_rate * NP) \div 2
  /\ pc = "resample" => Elites = {}

\* C6 witness: a resample at the end of an iteration flagged one of two.
C6_Witness ==
  /\ Discrete /\ pc = "loop" /\ evals > NP
  /\ NP = 2 /\ Cardinality(Elites) = 1

\* C7: every random draw of a run comes from the algorithm's own seeded
\* random source.
C7_SeededDraws == ~unseeded

\* C8: the step that ends a v3 iteration puts the best candidate of step 1
\* in place of the worst row of the evolved population exactly when the
\* candidate is not worse, changes nothing else, and does not raise the
\* population's maximum fitness.
C8_Injection ==
  [][(alg.variant = "v3" /\ pc \in {"step2", "inject"} /\ pc' = "loop") =>
       LET X == IF pc = "inject" THEN Positions(pop) ELSE Positions(pop')
           X_f == IF pc = "inject" THEN population_fitness ELSE population_fitness'
           iw == argmax(X_f)
           ib == argmin(x_gb_f)
       IN /\ x_gb_f[ib] <= X_f[iw] =>
               /\ Positions(pop') = [X EXCEPT ![iw] = x_gb[ib]]
               /\ population_fitness' = [X_f EXCEPT ![iw] = x_gb_f[ib]]
          /\ x_gb_f[ib] > X_f[iw] =>
               /\ Positions(pop') = X
               /\ population_fitness' = X_f
          /\ MaxOf(population_fitness') <= MaxOf(X_f)]_vars

\* The hyperparameters the spec calls invalid.
InvalidConfig ==
  \/ alg.population_size <= 0
  \/ alg.population_rate < 0
  \/ alg.population_rate > 2

\* C9: with invalid hyperparameters construction fails, before any
\* evaluation.
C9_EagerConfigErrors ==
  (InvalidConfig /\ pc # "new") => (pc = "error" /\ evals = 0)

\* C10: every row of the v3 candidate batch, before repair, is
\* best_x + fc * (A[r] - B[r]).
C10_CandidateFormula ==
  [][(pc = "step1" /\ pc' = "step2") =>
       \A r \in DOMAIN x_gb_raw' :
         x_gb_raw'[r] =
           [d \in Dims |->
              best_x[d] + Scale(alg.fc, pop[ra'[r]].x[d] - pop[rb'[r]].x[d])]]_vars

\* The run has a tracked global best (initialization is over).
Tracking == pc \in {"loop", "move", "resample", "step1", "step2", "inject"}

\* C11: once the run tracks a global best, a step changes the tracked
\* position or fitness only to a strictly smaller fitness; with an equal
\* fitness the tracked position stays as it is.
C11_StrictReplacement ==
  [][(Tracking /\ pc' # "error") =>
       ((GlobalBestX' # GlobalBestX \/ GlobalBestF' # GlobalBestF) =>
          GlobalBestF' < GlobalBestF)]_vars

\* Ordered pairs of two distinct individuals.
DistinctPairs == {s \in [1..2 -> 1..NP] : s[1] # s[2]}

\* The least element of a nonempty set of integers.
Least(S) == CHOOSE u \in S : \A w \in S : u <= w

\* The individual whose move has just been made.
moved == IF pc = "resample" THEN i ELSE i - 1

\* C12: the v2 elite move of individual i consumes int(c * population_size)
\* evaluations, one per candidate; every candidate is
\* elite_position - fc * (x_j - x_k), repaired, for the position at the
\* start of the move and two distinct individuals j # k; the elite is left
\* at its prior state when no candidate is strictly better and otherwise at
\* the first candidate of minimum fitness.
C12_GreedyEliteV2 ==
  [][(pc = "move" /\ alg.variant = "v2" /\ pop[i].monkey_king /\ pc' # "error") =>
       LET T == (alg.c * NP) \div 2
           x0 == pop[i].x
           f0 == pop[i].f
           improving == {t \in 1..T : A_f'[t] < f0}
           fmin == Least({A_f'[t] : t \in improving})
           first == Least({t \in improving : A_f'[t] = fmin})
       IN /\ evals' = evals + T
          /\ DOMAIN A' = 1..T /\ DOMAIN A_f' = 1..T
          /\ \A t \in 1..T :
               /\ A_f'[t] = Sphere(A'[t])
               /\ \E r \in DistinctPairs :
                    A'[t] = repair([d \in Dims |->
                              x0[d] - Scale(alg.fc, pop[r[1]].x[d] - pop[r[2]].x[d])])
          /\ IF improving = {}
             THEN pop'[i].x = x0 /\ pop'[i].f = f0
             ELSE pop'[i].x = A'[first] /\ pop'[i].f = fmin]_vars

\* C12 witness: an iteration in which both of two individuals were elite and
\* ran two trials each has ended, and one of them improved on the best of
\* the iteration's start.
C12_Witness ==
  /\ alg.variant = "v2" /\ pc = "resample"
  /\ NP = 2 /\ n_monkey_kings = 2 /\ n_trials = 2
  /\ evals = evals0 + 4
  /\ \E j \in DOMAIN pop : pop[j].f < best0

\* C13: the v1 elite move of individual i makes int(c * dimension) offspring,
\* each x + fc * U(0,1)^D * x repaired for the position x at the start of the
\* move, and leaves the elite at the lowest-index offspring of minimum
\* fitness with that fitness, whatever its prior fitness was.
C13_GreedyTruncationV1 ==
  [][(pc = "move" /\ alg.variant = "v1" /\ pop[i].monkey_king /\ pc' # "error") =>
       LET K == (alg.c * dimension) \div 2
           x0 == pop[i].x
           fmin == Least({A_f'[t] : t \in 1..K})
           first == Least({t \in 1..K : A_f'[t] = fmin})
       IN /\ DOMAIN A' = 1..K /\ DOMAIN A_f' = 1..K
          /\ \A t \in 1..K :
               /\ A_f'[t] = Sphere(A'[t])
               /\ \E r \in [Dims -> RandNums] :
                    A'[t] = repair([d \in Dims |-> x0[d] + Scale2(alg.fc, r[d], x0[d])])
          /\ pop'[i].f = fmin
          /\ pop'[i].x = A'[first]]_vars

\* C13 witness: a v1 elite move with two offspring has just left its
\* individual worse than that individual's personal best.
C13_Witness ==
  /\ alg.variant = "v1" /\ pc \in {"move", "resample"}
  /\ Len(A) = 2
  /\ pop[moved].x = A[argmin(A_f)]
  /\ pop[moved].f > pop[moved].f_pb

\* The step is a resample that flags exactly the individuals of S.
ResampleTo(S) == Next /\ pc' = "loop" /\ {j \in DOMAIN pop' : pop'[j].monkey_king} = S

\* The sets a resample may flag: every set of int(population_rate *
\* population_size) individuals.
EliteSets == {S \in SUBSET (1..NP) : Cardinality(S) = (alg.population_rate * NP) \div 2}

\* The step that moves individual i, by role.
C14_MoveByRole ==
  (pc = "move" /\ pc' # "error") =>
     /\ ~pop'[i].monkey_king
     /\ \A j \in DOMAIN pop : j # i => pop'[j].monkey_king = pop[j].monkey_king
     /\ pop[i].monkey_king =>
          /\ DOMAIN A' = 1..(IF alg.variant = "v1" THEN (alg.c * dimension) \div 2
                                                  ELSE (alg.c * NP) \div 2)
          /\ evals' = evals + Len(A')
     /\ ~pop[i].monkey_king =>
          /\ A' = <<>>
          /\ evals' = evals + 1
          /\ \E r \in [Dims -> RandNums] :
               pop'[i].x = repair([d \in Dims |->
                 pop[i].x_pb[d]
                   + Scale2(alg.fluctuation_coeff, r[d], GlobalBestX[d] - pop[i].x[d])])

\* C14: in v1 and v2 the individual being moved receives the elite move
\* exactly when its flag is set and the move toward the global best
\* otherwise; its move clears its flag and changes no other flag; when the
\* resample starts no flag is set; and the resample can flag every set of
\* int(population_rate * population_size) individuals, whatever their
\* fitness and whoever was flagged before.
C14_EliteRoleOrdering ==
  /\ [][C14_MoveByRole]_vars
  /\ [](pc = "resample" => (Elites = {} /\ \A S \in EliteSets : ENABLED ResampleTo(S)))

\* C14 witness: in an iteration after the first, the first of two
\* individuals has just received the elite move and lost its flag, and the
\* second, not flagged, is about to move toward the global best.
C14_Witness ==
  /\ Discrete /\ pc = "move" /\ i = 2 /\ evals0 > NP
  /\ A # <<>>
  /\ ~pop[1].monkey_king /\ ~pop[2].monkey_king

\* The mask has 0/1 entries, row j (counted from 1) has ((j-1) mod
\* dimension) + 1 ones, and mask + neg(mask) is all ones.
MaskRows ==
  \A j \in 1..shape.np :
    /\ \A d \in 1..shape.d : m[j][d] \in {0, 1} /\ m[j][d] + m_neg[j][d] = 1
    /\ Cardinality({d \in 1..shape.d : m[j][d] = 1}) = ((j - 1) % shape.d) + 1

\* C15: for every shape, after the per-row shuffle the mask has 0/1
\* entries with ((j-1) mod dimension) + 1 ones in row j, its complement
\* adds up with it to all ones, and every component of a recombined row
\* (before repair) is the previous row's where the mask is 1 and the global
\* best's where it is 0, ((j-1) mod dimension) + 1 of them being kept.
C15_MaskRecombination ==
  /\ [](pc \in {"masked", "recombined"} => MaskRows)
  /\ [][(pc = "masked" /\ pc' = "recombined") =>
          \A j \in 1..shape.np :
            /\ \A d \in 1..shape.d :
                 pop'[j].x[d] = IF m[j][d] = 1 THEN pop[j].x[d] ELSE best_x[d]
            /\ Cardinality({d \in 1..shape.d : pop'[j].x[d] = pop[j].x[d]})
                 = ((j - 1) % shape.d) + 1
            /\ Cardinality({d \in 1..shape.d : pop'[j].x[d] = best_x[d]})
                 = shape.d - (((j - 1) % shape.d) + 1)]_vars

\* C15 witness: three rows of two components (the last block is not whole)
\* were recombined, the third row keeping one component and taking the
\* other from the global best.
C15_Witness ==
  /\ pc = "recombined" /\ shape.np = 3 /\ shape.d = 2
  /\ \E d \in 1..2 : pop[3].x[d] = best_x[d]
  /\ \E d \in 1..2 : pop[3].x[d] # best_x[d]

\* Initialization of v1/v2 has just ended.
Initialized == Discrete /\ pc = "loop" /\ evals0 = 0

\* The step is the first move of individual i since its creation.
FirstMove == Discrete /\ pc = "move" /\ evals0 = NP /\ pc' # "error"

\* C16: when the initialization of v1/v2 ends every individual was
\* evaluated once and its personal best is its initial position and
\* fitness; and the first move of an individual to a fitness that is not
\* strictly better than its initial fitness leaves the initial position as
\* its personal best.
C16_PersonalBestSeeding ==
  /\ [](Initialized =>
          /\ evals = NP
          /\ \A j \in DOMAIN pop :
               /\ pop[j].f = Sphere(pop[j].x)
               /\ pop[j].x_pb = pop[j].x
               /\ pop[j].f_pb = pop[j].f)
  /\ [][(FirstMove /\ pop'[i].f >= pop[i].f) => pop'[i].x_pb = pop[i].x]_vars

\* An iteration has just ended.
IterationEnded == pc = "loop" /\ evals0 > 0

\* The pair (k, c) of v3 as initialization computes it.
InitialPair ==
  [k |-> -((-NP) \div dimension), c |-> -((-(alg.c * dimension)) \div 2)]

\* C17: an iteration that has ended consumed (population_size - e) +
\* e * int(c * dimension) evaluations in v1 and (population_size - e) +
\* e * int(c * population_size) in v2, e being the number of flagged
\* individuals, and ceil(c * dimension) + population_size in v3; and from
\* the end of v3's initialization on the pair (k, c) is the one computed
\* there and no step changes it.
C17_IterationAccounting ==
  /\ [](IterationEnded =>
          LET e == Cardinality(Elites)
          IN evals - evals0 =
               CASE alg.variant = "v1" -> (NP - e) + e * ((alg.c * dimension) \div 2)
                 [] alg.variant = "v2" -> (NP - e) + e * ((alg.c * NP) \div 2)
                 [] alg.variant = "v3" -> -((-(alg.c * dimension)) \div 2) + NP)
  /\ []((alg.variant = "v3" /\ pc \notin {"new", "init"}) => params = InitialPair)
  /\ [][(alg.variant = "v3" /\ pc \notin {"new", "init"}) => params' = params]_vars

\* C17 witness: a v1 iteration of two individuals, one of them elite with
\* two offspring, has ended after three evaluations.
C17_Witness ==
  /\ alg.variant = "v1" /\ IterationEnded
  /\ NP = 2 /\ Cardinality(Elites) = 1 /\ n_offspring = 2
  /\ evals = evals0 + 3

\* The fitness array the iteration boundary holds: the returned array, or
\* in NiaPy's v1/v2 the list [x.f for x in pop].
FitnessArray == IF Aliased THEN Fitnesses(pop) ELSE population_fitness

\* C18: at the end of initialization and of every iteration, and at the
\* return, entry j of the fitness array is the fitness of population member
\* j (of its position, and in v1/v2 of the member's own fitness field), and
\* the tracked global-best fitness is not greater than any entry.
C18_BestDominates ==
  pc \in {"loop", "done"} =>
    /\ DOMAIN FitnessArray = DOMAIN pop
    /\ \A j \in DOMAIN pop :
         /\ FitnessArray[j] = Sphere(pop[j].x)
         /\ Discrete => FitnessArray[j] = pop[j].f
         /\ GlobalBestF <= FitnessArray[j]

\* C18 witness: a v3 iteration has ended whose injection overwrote a row,
\* and the other row's fitness is strictly greater than the tracked best.
C18_Witness ==
  /\ alg.variant = "v3" /\ IterationEnded
  /\ NP = 2 /\ injected # 0
  /\ population_fitness[injected] = Sphere(pop[injected].x)
  /\ \E j \in DOMAIN pop : j # injected /\ population_fitness[j] > best_fitness

====
